---------------------------- MODULE Spec2Model ----------------------------
(***************************************************************************)
(* LovecraftTextGen: the preprocessing notebook (filter_text,              *)
(* create_lookup_tables, preprocess_and_save_data) and the generation      *)
(* notebook (generate and the cell that calls it).                         *)
(*                                                                         *)
(* Text is a sequence of atoms: a word, a placeholder body such as         *)
(* "<PERIOD>", a punctuation string, or the single space " ".  A token is  *)
(* one atom that is not a space.  Ids are 0-based as in the code.          *)
(***************************************************************************)
EXTENDS Integers, Sequences, FiniteSets, TLC

(* ------------------------------ bounds --------------------------------- *)
\* longest corpus, in words and punctuation marks
MaxTokens == 8
\* largest predict_len of a generate call
MaxPredictLen == 2
\* the window width sequence_length of a generate call is 1 or MaxSeqLen
MaxSeqLen == 4

(* -------------------------- program constants -------------------------- *)
\* filter_text keeps the words with cnt > 3
MinFrequency == 3
\* top_k = 5 inside generate
top_k == 5
\* pad_word = '<PAD>'
pad_word == "<PAD>"

\* what the text files are made of: words and punctuation marks
CorpusWords == {"the", "<PAD>"}
CorpusMarks == {"."}

VARIABLES
    \* preprocess_and_save_data
    pcPre,          \* position in preprocess_and_save_data
    all_text_data,  \* the text load_directory returned
    text,           \* cleaned_text.split(): the tokens of the cleaned corpus
    tokens,         \* filter_text's result
    int_text,       \* the encoded corpus
    \* the pickled lookup tables, shared by both notebooks
    vocab_to_int,
    int_to_vocab,
    \* the generation notebook
    pc,             \* "entry", "loop", "done", "error"
    err,            \* the exception that ended the call, "" if none
    rnn,            \* the loaded model: its output width
    sequence_length,
    predict_len,
    prime_word,
    prime_id,
    pad_value,
    current_seq,    \* the context window
    predicted,      \* the accumulated tokens
    p,              \* the probabilities of the last predictor query
    top_i,          \* the ids p.topk returned for that query
    word_i,         \* the id np.random.choice drew, -1 before the first draw
    queries,        \* number of calls of rnn(current_seq, hidden) so far
    gen_sentences   \* the returned text, <<>> while nothing is returned

preVars == <<pcPre, all_text_data, text, tokens, int_text>>
tableVars == <<vocab_to_int, int_to_vocab>>
genVars == <<pc, err, rnn, sequence_length, predict_len, prime_word, prime_id,
             pad_value, current_seq, predicted, p, top_i, word_i, queries,
             gen_sentences>>
vars == <<preVars, tableVars, genVars>>

(* ------------------------------ helpers -------------------------------- *)
Range(s) == {s[i] : i \in DOMAIN s}

\* the lists of length 0..n over S
SeqsUpTo(S, n) == UNION {[1..k -> S] : k \in 0..n}

\* an empty dict
EmptyDict == [k \in {} |-> 0]

(* --------------------------- collections.Counter ----------------------- *)
\* Counter(words)[w]
Count(words, w) == Cardinality({i \in DOMAIN words : words[i] = w})

RECURSIVE CounterKeysFrom(_, _)
CounterKeysFrom(words, seen) ==
    IF words = <<>> THEN <<>>
    ELSE IF Head(words) \in seen THEN CounterKeysFrom(Tail(words), seen)
    ELSE <<Head(words)>> \o CounterKeysFrom(Tail(words), seen \cup {Head(words)})

\* a list instead of a Counter: every occurrence is a key of its own
CounterKeys_list(words) == words

\* the keys of Counter(words), in insertion order (first occurrence)
CounterKeys(words) == CounterKeysFrom(words, {})

(* ------------------------------ filter_text ---------------------------- *)
\* cnt >= 3 in place of cnt > 3
filter_text_ge(words) ==
    SelectSeq(words, LAMBDA t : Count(words, t) >= MinFrequency)

\* trimmed_words = the words with cnt > 3; trimmed_tokens keeps the tokens
\* that are in trimmed_words
filter_text(words) ==
    SelectSeq(words, LAMBDA t : Count(words, t) > MinFrequency)

(* -------------------------- create_lookup_tables ----------------------- *)
\* word_counter after word_counter['<PAD>'] += 1
PadCount(words, w) == Count(words, w) + (IF w = pad_word THEN 1 ELSE 0)

\* the keys of word_counter without word_counter['<PAD>'] += 1
PadKeys_counter(words) == CounterKeys(words)

\* the keys of word_counter after the increment: '<PAD>' is inserted last
\* when the text does not hold it
PadKeys(words) ==
    IF pad_word \in Range(words) THEN CounterKeys(words)
    ELSE Append(CounterKeys(words), pad_word)

\* w goes behind every word whose count is not smaller (a stable sort)
RECURSIVE InsertByCount(_, _, _)
InsertByCount(sorted, w, words) ==
    IF sorted = <<>> THEN <<w>>
    ELSE IF PadCount(words, Head(sorted)) >= PadCount(words, w)
         THEN <<Head(sorted)>> \o InsertByCount(Tail(sorted), w, words)
         ELSE <<w>> \o sorted

RECURSIVE SortKeys(_, _, _)
SortKeys(keys, sorted, words) ==
    IF keys = <<>> THEN sorted
    ELSE SortKeys(Tail(keys), InsertByCount(sorted, Head(keys), words), words)

\* sorted(word_counter, key=word_counter.get, reverse=True)
sorted_words(words) == SortKeys(PadKeys(words), <<>>, words)

\* {ii: word for ii, word in enumerate(sorted_words)}
Enumerate(ws) == [ii \in 0..(Len(ws) - 1) |-> ws[ii + 1]]

\* {word: ii for ii, word in int_to_vocab.items()}: a later id overwrites
Invert(i2v) ==
    [w \in {i2v[ii] : ii \in DOMAIN i2v} |->
        CHOOSE ii \in DOMAIN i2v :
            /\ i2v[ii] = w
            /\ \A jj \in DOMAIN i2v : i2v[jj] = w => jj <= ii]

create_lookup_tables(words) ==
    LET i2v == Enumerate(sorted_words(words))
    IN  [vocab_to_int |-> Invert(i2v), int_to_vocab |-> i2v]


(* ------------------- the persisted punctuation map --------------------- *)
\* token_lookup() of the preprocessing notebook, in insertion order; it is
\* pickled as special_tokens_dict and loaded as token_dict
token_lookup ==
    << [key |-> <<".">>,            token |-> <<" ", "<PERIOD>", " ">>],
       [key |-> <<"!">>,            token |-> <<" ", "<EXCLAMATION_MARK>", " ">>],
       [key |-> <<"?">>,            token |-> <<" ", "<QUESTION_MARK>", " ">>],
       [key |-> <<",">>,            token |-> <<" ", "<COMMA>", " ">>],
       [key |-> <<"\"">>,           token |-> <<" ", "<QUOTATION_MARK>", " ">>],
       [key |-> <<";">>,            token |-> <<" ", "<SEMICOLON>", " ">>],
       [key |-> <<"(">>,            token |-> <<" ", "<LEFT_PAREN>", " ">>],
       [key |-> <<")">>,            token |-> <<" ", "<RIGHT_PAREN>", " ">>],
       [key |-> <<"-">>,            token |-> <<" ", "<DASH>", " ">>],
       [key |-> <<"?", "?", "?">>,  token |-> <<" ", "<DASH>", " ">>],
       [key |-> <<"\n">>,           token |-> <<" ", "<NEW_LINE>", " ">>] >>

(* ------------------------------ str methods ---------------------------- *)
\* str.lower() of one atom
LowerAtom(a) ==
    CASE a = "<PERIOD>"           -> "<period>"
      [] a = "<EXCLAMATION_MARK>" -> "<exclamation_mark>"
      [] a = "<QUESTION_MARK>"    -> "<question_mark>"
      [] a = "<COMMA>"            -> "<comma>"
      [] a = "<QUOTATION_MARK>"   -> "<quotation_mark>"
      [] a = "<SEMICOLON>"        -> "<semicolon>"
      [] a = "<LEFT_PAREN>"       -> "<left_paren>"
      [] a = "<RIGHT_PAREN>"      -> "<right_paren>"
      [] a = "<DASH>"             -> "<dash>"
      [] a = "<NEW_LINE>"         -> "<new_line>"
      [] a = "<PAD>"              -> "<pad>"
      [] OTHER                    -> a

\* str.lower()
Lower(s) == [i \in DOMAIN s |-> LowerAtom(s[i])]

\* ''.join(words)
RECURSIVE Join_nospace(_)
Join_nospace(words) ==
    IF words = <<>> THEN <<>>
    ELSE <<Head(words)>> \o Join_nospace(Tail(words))

\* ' '.join(words)
RECURSIVE Join(_)
Join(words) ==
    IF words = <<>> THEN <<>>
    ELSE IF Len(words) = 1 THEN <<words[1]>>
    ELSE <<Head(words), " ">> \o Join(Tail(words))

\* s.replace(old, new): the occurrences of old, left to right, not overlapping
RECURSIVE Replace(_, _, _)
Replace(s, old, new) ==
    IF Len(s) < Len(old) THEN s
    ELSE IF SubSeq(s, 1, Len(old)) = old
         THEN new \o Replace(SubSeq(s, Len(old) + 1, Len(s)), old, new)
         ELSE <<Head(s)>> \o Replace(Tail(s), old, new)

\* whitespace for str.split()
IsSpace(a) == a \in {" ", "\n"}

\* s.split(): the maximal runs of atoms that are not whitespace, each run
\* being one token; run is the token being read
RECURSIVE SplitFrom(_, _)
SplitFrom(s, run) ==
    IF s = <<>> THEN (IF run = <<>> THEN <<>> ELSE <<run>>)
    ELSE IF IsSpace(Head(s))
         THEN (IF run = <<>> THEN <<>> ELSE <<run>>) \o SplitFrom(Tail(s), <<>>)
         ELSE SplitFrom(Tail(s), Append(run, Head(s)))

Split(s) == SplitFrom(s, <<>>)

\* the tokens of a text whose tokens are one atom each
SplitTokens(s) == [i \in DOMAIN Split(s) |-> Split(s)[i][1]]

\* ' '.join(runs)
RECURSIVE JoinRuns(_)
JoinRuns(runs) ==
    IF runs = <<>> THEN <<>>
    ELSE IF Len(runs) = 1 THEN runs[1]
    ELSE runs[1] \o <<" ">> \o JoinRuns(Tail(runs))

(* ------------------------------ clean_text ----------------------------- *)
\* the loop over special_tokens_dict.items(), entries n..Len
RECURSIVE ReplaceKeys(_, _, _)
ReplaceKeys(s, special_tokens_dict, n) ==
    IF n > Len(special_tokens_dict) THEN s
    ELSE ReplaceKeys(
            Replace(s, special_tokens_dict[n].key, special_tokens_dict[n].token),
            special_tokens_dict, n + 1)

\* clean_text without text.lower()
clean_text_nolower(s, special_tokens_dict) ==
    JoinRuns(Split(ReplaceKeys(s, special_tokens_dict, 1)))

\* replace every punctuation string, reduce white space to single spaces,
\* lowercase
clean_text(s, special_tokens_dict) ==
    Lower(JoinRuns(Split(ReplaceKeys(s, special_tokens_dict, 1))))

\* a text file: the items in order, a space before every item but the first;
\* when glued, a punctuation mark follows what is before it without a space
RECURSIVE RawText(_, _)
RawText(items, glued) ==
    IF items = <<>> THEN <<>>
    ELSE LET n    == Len(items)
             init == RawText(SubSeq(items, 1, n - 1), glued)
         IN  IF n = 1 \/ (glued /\ items[n] \in CorpusMarks)
             THEN Append(init, items[n])
             ELSE init \o <<" ", items[n]>>

(* ------------------- generate: the detokenization ---------------------- *)
\* the loop over token_dict.items(), entries n..Len(token_dict)
RECURSIVE ReplaceTokens(_, _, _)
ReplaceTokens(s, token_dict, n) ==
    IF n > Len(token_dict) THEN s
    ELSE ReplaceTokens(
            Replace(s, <<" ">> \o Lower(token_dict[n].token), token_dict[n].key),
            token_dict, n + 1)

\* lines 181-191 of generate
Detokenize(words, token_dict) ==
    LET joined   == Join(words)
        replaced == ReplaceTokens(joined, token_dict, 1)
        newlines == Replace(replaced, <<"\n", " ">>, <<"\n">>)
    IN  Replace(newlines, <<"(", " ">>, <<"(">>)

(* --------------------------- the predictor ----------------------------- *)
\* A score of the model's output: "-inf", a lower and a higher finite score,
\* or "nan".
OneHot(W, h) == [i \in 0..(W - 1) |-> IF i = h THEN "lo" ELSE "-inf"]
Peak(W, h, c) ==
    [i \in 0..(W - 1) |-> IF i = h THEN "hi" ELSE IF i = c THEN "-inf" ELSE "lo"]
Flat(W) == [i \in 0..(W - 1) |-> "lo"]
NaNs(W) == [i \in 0..(W - 1) |-> "nan"]

\* the outputs a model of width W may give for a window
Outputs(W) ==
    {OneHot(W, h) : h \in 0..(W - 1)}
    \cup {Peak(W, h, c) : h, c \in 0..(W - 1)}
    \cup {Flat(W), NaNs(W)}

\* output, _ = rnn(current_seq, hidden): any output of the model's width, or
\* for the stub model the same one-hot output on id 2 at every call
Forward(model) ==
    IF model.stub THEN {OneHot(model.output_size, 2)}
    ELSE Outputs(model.output_size)

\* F.softmax(output, dim=1): weights proportional to the probabilities
\* (exp(-inf) = 0, exp(lo) < exp(hi)); every entry is nan when a score is nan
\* or when all scores are -inf (0/0)
Softmax(output) ==
    LET bad == \/ \E i \in DOMAIN output : output[i] = "nan"
               \/ \A i \in DOMAIN output : output[i] = "-inf"
    IN  [nan |-> bad,
         w   |-> [i \in DOMAIN output |->
                    IF bad THEN 0
                    ELSE CASE output[i] = "-inf" -> 0
                           [] output[i] = "lo"   -> 1
                           [] output[i] = "hi"   -> 2]]

\* p.topk(k) over weights w: the index sets topk may return, every one of
\* them holding k ids none of which is below an id left out (the choice among
\* equal entries is not specified)
topk(w, k) ==
    {S \in SUBSET DOMAIN w :
        /\ Cardinality(S) = k
        /\ \A i \in S : \A j \in (DOMAIN w) \ S : w[i] >= w[j]}

RECURSIVE SumOver(_, _)
SumOver(w, S) ==
    IF S = {} THEN 0
    ELSE LET i == CHOOSE i \in S : TRUE IN w[i] + SumOver(w, S \ {i})

\* a draw over every id of the output instead of the top_k ones
Choice_all(ids, w) == {i \in DOMAIN w : w[i] > 0}

\* np.random.choice(top_i, p=p/p.sum()): the ids it can return
Choice(ids, w) == {i \in ids : w[i] > 0}

\* np.roll(current_seq, 1, 1)
Roll_right(seq) == <<seq[Len(seq)]>> \o SubSeq(seq, 1, Len(seq) - 1)

\* np.roll(current_seq, -1, 1)
Roll(seq) == Tail(seq) \o <<Head(seq)>>

\* range(predict_len + 1)
InRange_inclusive(i, n) == i <= n

\* for _ in range(predict_len): the loop has an i-th pass (i counts from 0)
InRange(i, n) == i < n

(* ------------------- inputs of the generation notebook ----------------- *)
\* int_to_vocab tables load_preprocess() may hand over, as lists of words in
\* id order
VocabScenario == <<"<PAD>", "the", "cat", "sat">>
VocabCorpus == <<"the", "<period>", "cat", "<new_line>", "<left_paren>", "<PAD>">>
VocabNoPad == <<"the", "cat">>
Vocabs == {VocabScenario, VocabCorpus, VocabNoPad}

\* output widths of the loaded model
OutputSizes == {4, 5, 6}

\* prime_word; "azathoth" is in no vocabulary
PrimeWords == {"the", "<period>", "azathoth"}

(* ------------------- preprocess_and_save_data -------------------------- *)
PreIdle ==
    /\ pc = "idle" /\ err = "" /\ rnn = [output_size |-> 0, stub |-> FALSE]
    /\ sequence_length = 0 /\ predict_len = 0 /\ prime_word = ""
    /\ prime_id = -1 /\ pad_value = -1 /\ current_seq = <<>> /\ predicted = <<>>
    /\ p = [nan |-> FALSE, w |-> EmptyDict] /\ top_i = {} /\ word_i = -1
    /\ queries = 0 /\ gen_sentences = <<>>

InitPre ==
    /\ pcPre = "loaded"
    /\ \E items \in SeqsUpTo(CorpusWords \cup CorpusMarks, MaxTokens) :
       \E glued \in BOOLEAN :
          all_text_data = RawText(items, glued)
    /\ text = <<>>
    /\ tokens = <<>>
    /\ int_text = <<>>
    /\ vocab_to_int = EmptyDict
    /\ int_to_vocab = EmptyDict
    /\ PreIdle

\* cleaned_text = clean_text(all_text_data, special_tokens_dict), and the
\* text.split() that opens filter_text
CleanText ==
    /\ pcPre = "loaded"
    /\ text' = SplitTokens(clean_text(all_text_data, token_lookup))
    /\ pcPre' = "cleaned"
    /\ UNCHANGED <<all_text_data, tokens, int_text, tableVars, genVars>>

\* tokens = filter_text(cleaned_text)
FilterText ==
    /\ pcPre = "cleaned"
    /\ tokens' = filter_text(text)
    /\ pcPre' = "filtered"
    /\ UNCHANGED <<all_text_data, text, int_text, tableVars, genVars>>

\* vocab_to_int, int_to_vocab = create_lookup_tables(tokens)
CreateLookupTables ==
    /\ pcPre = "filtered"
    /\ LET t == create_lookup_tables(tokens)
       IN  /\ vocab_to_int' = t.vocab_to_int
           /\ int_to_vocab' = t.int_to_vocab
    /\ pcPre' = "tabled"
    /\ UNCHANGED <<all_text_data, text, tokens, int_text, genVars>>

\* int_text = [vocab_to_int[word] for word in tokens], then pickle.dump
EncodeAndSave ==
    /\ pcPre = "tabled"
    /\ IF \A i \in DOMAIN tokens : tokens[i] \in DOMAIN vocab_to_int
       THEN /\ int_text' = [i \in DOMAIN tokens |-> vocab_to_int[tokens[i]]]
            /\ pcPre' = "saved"
       ELSE /\ int_text' = int_text
            /\ pcPre' = "KeyError"
    /\ UNCHANGED <<all_text_data, text, tokens, tableVars, genVars>>

NextPre == CleanText \/ FilterText \/ CreateLookupTables \/ EncodeAndSave

SpecPre == InitPre /\ [][NextPre]_vars

(* ------------------------ the generation notebook ---------------------- *)
Init ==
    /\ pcPre = "saved" /\ all_text_data = <<>>
    /\ text = <<>> /\ tokens = <<>> /\ int_text = <<>>
    /\ \E v \in Vocabs :
          /\ int_to_vocab = Enumerate(v)
          /\ vocab_to_int = Invert(Enumerate(v))
    /\ rnn \in [output_size : OutputSizes, stub : BOOLEAN]
    /\ sequence_length \in {1, MaxSeqLen}
    /\ predict_len \in 0..MaxPredictLen
    /\ prime_word \in PrimeWords
    /\ pc = "entry" /\ err = ""
    /\ prime_id = -1 /\ pad_value = -1 /\ current_seq = <<>> /\ predicted = <<>>
    /\ p = [nan |-> FALSE, w |-> EmptyDict] /\ top_i = {} /\ word_i = -1
    /\ queries = 0 /\ gen_sentences = <<>>

genInputs == <<rnn, sequence_length, predict_len, prime_word>>

\* vocab_to_int.get(word, 0) in place of vocab_to_int[word]
EntryCell_get ==
    /\ pc = "entry"
    /\ LET pid == IF prime_word \in DOMAIN vocab_to_int
                  THEN vocab_to_int[prime_word] ELSE 0
           pad == IF pad_word \in DOMAIN vocab_to_int
                  THEN vocab_to_int[pad_word] ELSE 0
       IN  /\ prime_id' = pid
           /\ pad_value' = pad
           /\ current_seq' =
                 [i \in 1..sequence_length |->
                     IF i = sequence_length THEN pid ELSE pad]
           /\ predicted' = <<int_to_vocab[pid]>>
           /\ pc' = "loop"
           /\ err' = err
    /\ UNCHANGED <<preVars, tableVars, genInputs, p, top_i, word_i, queries,
                   gen_sentences>>

\* the cell that calls generate (vocab_to_int[prime_word], then
\* vocab_to_int[pad_word]) and generate up to its loop: np.full, the prime id
\* in the last position, predicted = [int_to_vocab[prime_id]]
EntryCell ==
    /\ pc = "entry"
    /\ IF prime_word \notin DOMAIN vocab_to_int \/ pad_word \notin DOMAIN vocab_to_int
       THEN /\ pc' = "error"
            /\ err' = "KeyError"
            /\ UNCHANGED <<prime_id, pad_value, current_seq, predicted>>
       ELSE LET pid == vocab_to_int[prime_word]
                pad == vocab_to_int[pad_word]
            IN  /\ prime_id' = pid
                /\ pad_value' = pad
                /\ current_seq' =
                      [i \in 1..sequence_length |->
                          IF i = sequence_length THEN pid ELSE pad]
                /\ IF pid \in DOMAIN int_to_vocab
                   THEN /\ predicted' = <<int_to_vocab[pid]>>
                        /\ pc' = "loop"
                        /\ err' = err
                   ELSE /\ predicted' = predicted
                        /\ pc' = "error"
                        /\ err' = "KeyError"
    /\ UNCHANGED <<preVars, tableVars, genInputs, p, top_i, word_i, queries,
                   gen_sentences>>

\* one pass of the loop of generate: the query, softmax, topk, the draw, the
\* lookup, the append and the roll of the window
GenerateStep ==
    /\ pc = "loop"
    /\ InRange(queries, predict_len)
    /\ queries' = queries + 1
    /\ \E output \in Forward(rnn) :
        LET sm == Softmax(output) IN
        /\ p' = sm
        /\ IF rnn.output_size < top_k
           THEN \* p.topk(top_k): selected index k out of range
                /\ pc' = "error"
                /\ err' = "RuntimeError"
                /\ UNCHANGED <<top_i, word_i, predicted, current_seq>>
           ELSE \E ti \in topk(sm.w, top_k) :
                /\ top_i' = ti
                /\ IF sm.nan \/ SumOver(sm.w, ti) = 0
                   THEN \* p/p.sum() is nan: probabilities contain NaN
                        /\ pc' = "error"
                        /\ err' = "ValueError"
                        /\ UNCHANGED <<word_i, predicted, current_seq>>
                   ELSE \E wi \in Choice(ti, sm.w) :
                        /\ word_i' = wi
                        /\ IF wi \in DOMAIN int_to_vocab
                           THEN /\ predicted' = Append(predicted, int_to_vocab[wi])
                                /\ current_seq' =
                                      [Roll(current_seq) EXCEPT ![sequence_length] = wi]
                                /\ pc' = pc
                                /\ err' = err
                           ELSE \* int_to_vocab[word_i]
                                /\ pc' = "error"
                                /\ err' = "KeyError"
                                /\ UNCHANGED <<predicted, current_seq>>
    /\ UNCHANGED <<preVars, tableVars, genInputs, prime_id, pad_value,
                   gen_sentences>>

\* the loop is over: join, replace the punctuation tokens, return
Finish ==
    /\ pc = "loop"
    /\ ~InRange(queries, predict_len)
    /\ gen_sentences' = Detokenize(predicted, token_lookup)
    /\ pc' = "done"
    /\ UNCHANGED <<preVars, tableVars, genInputs, err, prime_id, pad_value,
                   current_seq, predicted, p, top_i, word_i, queries>>

Next == EntryCell \/ GenerateStep \/ Finish

Spec == Init /\ [][Next]_vars

(* ============================== claims ================================= *)
Last(seq) == seq[Len(seq)]

\* the lowercased placeholder tokens of the persisted punctuation map
Placeholders == {LowerAtom(token_lookup[n].token[2]) : n \in DOMAIN token_lookup}

\* the call's inputs are those the generation entry point asks for: prime and
\* pad word in the vocabulary, one output per vocabulary id, top_k not above
\* the vocabulary size
WellFormed ==
    /\ prime_word \in DOMAIN vocab_to_int
    /\ pad_word \in DOMAIN vocab_to_int
    /\ rnn.output_size = Cardinality(DOMAIN int_to_vocab)
    /\ top_k <= rnn.output_size

\* a pass of the loop that ran to its end
StepDone == pc = "loop" /\ pc' = "loop" /\ queries' = queries + 1

\* C1: every completed pass of the loop leaves the window at length
\* sequence_length, moves each id one position to the left (the oldest is
\* dropped) and puts the drawn id in the last position; the length of the
\* window never changes once generate has built it.
C1_WindowSliding ==
    /\ [](pc \in {"loop", "done"} => Len(current_seq) = sequence_length)
    /\ [][StepDone =>
            /\ Len(current_seq') = Len(current_seq)
            /\ \A i \in 1..(sequence_length - 1) :
                  current_seq'[i] = current_seq[i + 1]
            /\ current_seq'[sequence_length] = word_i']_vars
    /\ [][pc # "entry" => Len(current_seq') = Len(current_seq)]_vars

\* two passes done on a window of more than one position: the prime id has
\* moved two places to the left
C1_Witness ==
    /\ pc = "loop" /\ queries = 2 /\ sequence_length = MaxSeqLen
    /\ sequence_length >= 3
    /\ current_seq[sequence_length - 2] = prime_id
    /\ current_seq[sequence_length] = word_i

\* C2: a generate call on well-formed inputs ends only after exactly
\* predict_len predictor queries, with predict_len + 1 accumulated tokens.
C2_StepCount ==
    (WellFormed /\ pc \in {"done", "error"}) =>
        /\ pc = "done"
        /\ queries = predict_len
        /\ Len(predicted) = predict_len + 1

\* C3: after every completed pass the drawn id is one of the top_k ids topk
\* returned for that pass, these are top_k ids of highest probability, and
\* the drawn id is the one appended (as its word) and written into the newest
\* window position; a draw that fails to resolve is still from that set.
C3_SamplingSupport ==
    /\ (pc \in {"loop", "done"} /\ queries >= 1) =>
          /\ word_i \in top_i
          /\ Cardinality(top_i) = top_k
          /\ \A i \in top_i : \A j \in (DOMAIN p.w) \ top_i : p.w[i] >= p.w[j]
          /\ p.w[word_i] > 0
          /\ Last(predicted) = int_to_vocab[word_i]
          /\ Last(current_seq) = word_i
          /\ Len(predicted) = queries + 1
    /\ (pc = "error" /\ err = "KeyError" /\ queries >= 1) => word_i \in top_i

\* a pass whose topk left an id out, after an earlier pass
C3_Witness ==
    /\ pc = "loop" /\ queries = 2
    /\ word_i \in top_i
    /\ (DOMAIN p.w) \ top_i # {}
    /\ \E i \in top_i : p.w[i] = 0

\* C6: the text generate returns holds no lowercased placeholder token of the
\* persisted punctuation map at any position but the first.
C6_Detokenized ==
    pc = "done" =>
        \A i \in 2..Len(gen_sentences) : gen_sentences[i] \notin Placeholders

\* the scenario of C7
Scenario ==
    /\ int_to_vocab = Enumerate(VocabScenario)
    /\ rnn = [output_size |-> Len(VocabScenario), stub |-> TRUE]
    /\ sequence_length = 4
    /\ prime_word = "the"
    /\ predict_len = 2

\* C7: in the scenario the window is [0,0,0,1] at first, [0,0,1,2] after one
\* pass and [0,1,2,2] after two, and the call ends with the tokens
\* the, cat, cat.
C7_EndToEnd ==
    Scenario =>
        /\ (pc = "loop" /\ queries = 0) => current_seq = <<0, 0, 0, 1>>
        /\ (pc = "loop" /\ queries = 1) => current_seq = <<0, 0, 1, 2>>
        /\ pc \in {"done", "error"} =>
              /\ pc = "done"
              /\ predicted = <<"the", "cat", "cat">>
              /\ current_seq = <<0, 1, 2, 2>>

\* C8: a call with predict_len = 0 that returns has made no predictor query
\* and no draw, and returns the text of the prime token alone.
C8_ZeroLength ==
    (pc = "done" /\ predict_len = 0) =>
        /\ queries = 0
        /\ word_i = -1
        /\ top_i = {}
        /\ predicted = <<int_to_vocab[prime_id]>>
        /\ gen_sentences = <<prime_word>>

\* such a call has returned, here with a placeholder as the prime token
C8_Witness ==
    /\ pc = "done" /\ predict_len = 0 /\ prime_word = "<period>"
    /\ gen_sentences = <<"<period>">>

\* C9: a pass whose top_k probabilities do not sum to a positive value still
\* completes, with a drawn id from that pass's top_k ids.
C9_Fallback ==
    (queries >= 1 /\ top_i # {} /\ (p.nan \/ SumOver(p.w, top_i) = 0)) =>
        /\ pc # "error"
        /\ word_i \in top_i

\* C10: a call whose prime or pad word is not in vocab_to_int, or whose drawn
\* id is not in int_to_vocab, ends in KeyError: nothing is returned, no token
\* stands in for the missing one, and nothing runs after the error.
C10_UnknownToken ==
    /\ []((pc # "entry" /\ (prime_word \notin DOMAIN vocab_to_int
                            \/ pad_word \notin DOMAIN vocab_to_int)) =>
            /\ pc = "error" /\ err = "KeyError"
            /\ gen_sentences = <<>> /\ predicted = <<>>
            /\ queries = 0 /\ prime_id = -1)
    /\ []((queries >= 1 /\ word_i # -1 /\ word_i \notin DOMAIN int_to_vocab) =>
            /\ pc = "error" /\ err = "KeyError"
            /\ gen_sentences = <<>>
            /\ Len(predicted) = queries
            /\ Last(current_seq) # word_i)
    /\ [][pc = "error" => vars' = vars]_vars

\* the entry cell has run with a prime word that no vocabulary holds
C10_Witness ==
    /\ pc = "error" /\ err = "KeyError"
    /\ prime_word \notin DOMAIN vocab_to_int
    /\ pad_word \in DOMAIN vocab_to_int

(* ------------------- claims on the preprocessing ----------------------- *)
\* the tables t are a bijection between the words of the list (and the pad
\* word) and the ids 0..N-1
Bijection(t, words) ==
    LET vocab == Range(words) \cup {pad_word}
        N     == Cardinality(vocab)
    IN  /\ DOMAIN t.vocab_to_int = vocab
        /\ DOMAIN t.int_to_vocab = 0..(N - 1)
        /\ \A w \in vocab : t.int_to_vocab[t.vocab_to_int[w]] = w
        /\ \A i \in 0..(N - 1) : t.vocab_to_int[t.int_to_vocab[i]] = i

\* C4: the tables create_lookup_tables returns map every word of the list
\* and the pad word to an id and back, and every id 0..N-1 to a word and
\* back, N being the number of distinct words with the pad word; checked for
\* the filtered list of the pipeline and for the unfiltered list.
C4_Bijection ==
    /\ pcPre \in {"tabled", "saved"} =>
          Bijection([vocab_to_int |-> vocab_to_int,
                     int_to_vocab |-> int_to_vocab], tokens)
    /\ Bijection(create_lookup_tables(text), text)

\* the tables of a corpus in which two words survive the filter
C4_Witness ==
    /\ pcPre = "tabled"
    /\ Cardinality(DOMAIN int_to_vocab) = 3
    /\ vocab_to_int[pad_word] = 2

\* sub is words with some elements left out
RECURSIVE IsSubseq(_, _)
IsSubseq(sub, words) ==
    IF sub = <<>> THEN TRUE
    ELSE IF words = <<>> THEN FALSE
    ELSE IF Head(sub) = Head(words) THEN IsSubseq(Tail(sub), Tail(words))
    ELSE IsSubseq(sub, Tail(words))

\* C5: filter_text returns the tokens of the text in their order, without
\* every word that occurs MinFrequency times or fewer and with every
\* occurrence of a word that occurs more often.
C5_Filtering ==
    pcPre # "cleaned" =>
        /\ IsSubseq(tokens, text)
        /\ \A w \in Range(text) :
              /\ Count(text, w) <= MinFrequency => Count(tokens, w) = 0
              /\ Count(text, w) >= MinFrequency + 1 =>
                    Count(tokens, w) = Count(text, w)

\* a word with exactly MinFrequency occurrences is dropped from between the
\* occurrences of a word that is kept
C5_Witness ==
    /\ pcPre = "filtered"
    /\ \E w \in Range(text) : Count(text, w) = MinFrequency
    /\ \E w \in Range(text) : Count(text, w) = MinFrequency + 1
    /\ text[1] # text[2] /\ text[1] = text[3]
    /\ Len(tokens) = MinFrequency + 1

\* the words and marks of the text files, as a list
RawWords == SelectSeq(all_text_data, LAMBDA a : ~IsSpace(a))

\* the tables t give the pad word an id of theirs
PadHasId(t) ==
    /\ pad_word \in DOMAIN t.vocab_to_int
    /\ t.vocab_to_int[pad_word] \in 0..(Cardinality(DOMAIN t.int_to_vocab) - 1)
    /\ t.int_to_vocab[t.vocab_to_int[pad_word]] = pad_word

C12_RoundTrip ==
    pcPre = "cleaned" =>
        LET cleaned == Split(clean_text(all_text_data, token_lookup))
            back    == Split(Detokenize(text, token_lookup))
        IN  /\ Len(cleaned) = Len(text)
            /\ \A i \in DOMAIN cleaned : cleaned[i] = <<text[i]>>
            /\ \A r \in Range(cleaned) \cup Range(back) :
                  Count(back, r) = Count(cleaned, r)

\* a cleaned text with words and punctuation placeholders
C12_Witness ==
    /\ pcPre = "cleaned"
    /\ "." \in Range(all_text_data)
    /\ Count(text, "<period>") >= 2
    /\ Count(text, "the") >= 2

\* the ids of the accumulated tokens behind sequence_length - 1 pad ids
PaddedIds ==
    [i \in 1..(sequence_length - 1) |-> pad_value]
    \o [i \in DOMAIN predicted |-> vocab_to_int[predicted[i]]]

\* C13: from the start of generate on, the window is the last
\* sequence_length elements of the pad ids followed by the ids of the
\* accumulated tokens, which are the prime token and one token per pass.
C13_WindowOfAccumulated ==
    (pc \in {"loop", "done", "error"} /\ predicted # <<>>) =>
        /\ Len(current_seq) = sequence_length
        /\ predicted[1] = prime_word
        /\ Len(predicted) = (IF pc = "error" THEN queries ELSE queries + 1)
        /\ current_seq = SubSeq(PaddedIds, Len(PaddedIds) - sequence_length + 1,
                                Len(PaddedIds))

\* two passes on a window that still begins with a pad id
C13_Witness ==
    /\ pc = "done" /\ queries = 2 /\ sequence_length >= 4
    /\ current_seq[1] = pad_value
    /\ current_seq[sequence_length - 2] = prime_id
    /\ word_i # pad_value

\* C14: preprocess_and_save_data resolves every kept token, every id of the
\* encoded corpus is in 0..N-2 and stands for its token, and '<PAD>' has the
\* id N-1 with a count below that of every kept word, so that its id is not
\* in the encoded corpus.
C14_EncodedRange ==
    /\ pcPre # "KeyError"
    /\ pcPre = "saved" =>
          LET N == Cardinality(DOMAIN int_to_vocab)
          IN  /\ Len(int_text) = Len(tokens)
              /\ vocab_to_int[pad_word] = N - 1
              /\ \A i \in DOMAIN int_text :
                    /\ int_text[i] \in 0..(N - 2)
                    /\ int_to_vocab[int_text[i]] = tokens[i]
                    /\ int_text[i] # vocab_to_int[pad_word]
              /\ \A w \in Range(tokens) :
                    PadCount(tokens, pad_word) < PadCount(tokens, w)

\* an encoded corpus in which the lowercased pad word of the text survives
C14_Witness ==
    /\ pcPre = "saved"
    /\ "<PAD>" \in Range(all_text_data)
    /\ "<pad>" \in Range(tokens)
    /\ Cardinality(DOMAIN int_to_vocab) = 3

=============================================================================
